---- MODULE Spec2Model ----
(***************************************************************************)
(* Streaming chat orchestration of the chat backend: POST /chat/stream     *)
(* (main.py chat_stream), the generator stream_and_save, the provider      *)
(* factory and adapters (main.py) and the message store (crud.py,          *)
(* models.py).                                                             *)
(*                                                                         *)
(* Text (prompt, fragment, message content) is a sequence of one-letter    *)
(* strings, so that Python's str + str is \o and "" is << >>.              *)
(***************************************************************************)
EXTENDS Naturals, Sequences, FiniteSets

\* ------------------------------------------------------------------ bounds

\* Number of chat requests the service accepts in one run.
MaxReqs == 2
\* Number of incremental payloads one backend stream delivers at most.
MaxChunks == 2

\* Client connections. A connection carries one request at a time; a new
\* request on it starts a new stream_and_save generator with fresh locals.
Reqs == {1, 2}

\* ------------------------------------------------------------ input domains

Users == {"u1", "u2"}
\* The sessions table: s1 belongs to u1, s2 to u2; "s0" is no row of it.
SessionOwner == [s \in {"s1", "s2"} |-> IF s = "s1" THEN "u1" ELSE "u2"]
SessionIds == {"s0", "s1", "s2"}
Prompts == {<<"p">>, <<"q">>}
\* Provider identifiers a payload may carry; "bogus" is outside the known set.
Providers == {"openai", "gemini", "anthropic", "ollama", "bogus"}
\* Text a raised exception carries (str(e)).
ErrTexts == {"boom", "quota"}

\* ------------------------------------------------------------------- state

VARIABLES
    store,          \* messages table: sequence of rows, in insertion order
    payload,        \* per request: the ChatRequest and the acting user
    pc,             \* per request: position of chat_stream / stream_and_save
    connected,      \* per request: the client connection is still live
    full_response,  \* per request: local accumulator of stream_and_save
    history_db,     \* per request: local history_db (rows, as store positions)
    adapter,        \* per request: local ai_provider ("none" before resolution)
    calls,          \* per request: stream_chat calls that returned a generator
    pulled,         \* per request: backend payloads the adapter consumed
    events,         \* per request: events yielded by stream_and_save, in order
    written,        \* per request: positions in store of the rows it inserted
    detected,       \* per request: the loop saw is_disconnected() and broke
    yielded,        \* per request: fragments the adapter yielded, in order
    raised_by,      \* per request: the step whose exception ended the request
    log,            \* per request: the operations stream_and_save performed, in order
    upstream,       \* payloads read by an adapter that is driven directly
    clock,          \* the database server's time at the latest transaction start
    txn_at,         \* per request: start time of its Session's transaction
    served          \* requests accepted so far

vars == <<store, payload, pc, connected, full_response, history_db, adapter,
          calls, pulled, events, written, detected, yielded, raised_by, log,
          upstream, clock, txn_at, served>>

\* Positions at which a request has ended: HTTP 404, the generator raised,
\* the generator was closed or cancelled, or one of COMPLETED / DISCONNECTED /
\* FAILED.
Terminal == {"notfound", "raised", "closed", "completed", "disconnected", "failed"}

\* Positions at which the generator is suspended inside the loop: awaiting
\* the adapter's next token (line 194, or the sleep of line 198 before it),
\* awaiting request.is_disconnected() (line 195), at the yield of line 196.
Suspended == {"streaming", "checking", "yielding"}

\* schemas.ChatRequest plus the acting user. payload.model is handed to the
\* backend untouched and decides nothing in this code, so it is left out.
NoPayload == [user |-> "none", session |-> "none", prompt |-> << >>, provider |-> "none"]

\* --------------------------------------------------------- text and events

\* json.dumps({'delta': token}) framed as "data: ...\n\n".
DeltaEvent(token) == [type |-> "delta", data |-> token]
\* The literal "data: [DONE]\n\n".
DoneEvent == [type |-> "done", data |-> << >>]
\* json.dumps({'error': str(e)}) framed as "data: ...\n\n".
ErrorEvent(text) == [type |-> "error", data |-> text]

\* ------------------------------------------------------------------- store

\* Mutation of get_session: the owner filter is dropped.
get_session_any_owner(session_id, user_id) ==
    session_id \in DOMAIN SessionOwner

\* crud.get_session: the row with this id AND this owner, or none (FALSE).
get_session(session_id, user_id) ==
    /\ session_id \in DOMAIN SessionOwner
    /\ SessionOwner[session_id] = user_id

\* created_at is server_default now(), in PostgreSQL the start time of the
\* inserting transaction. A transaction starts at the time of the latest
\* start (the clock did not tick in between) or at a later one.
NowStamps(clk) == IF clk = 0 THEN {1} ELSE {clk, clk + 1}

\* models.Message: the row a create_message call inserts; its id is its
\* position in the table.
Message(session_id, role, content, stamp) ==
    [session_id |-> session_id, role |-> role, content |-> content,
     created_at |-> stamp]

\* crud.create_message after a successful commit: one row appended. user_id
\* is a parameter the function never reads.
create_message(st, role, session_id, content, user_id, stamp) ==
    Append(st, Message(session_id, role, content, stamp))

\* Sequences listing the positions of S by nondecreasing created_at; rows
\* with equal stamps come in any order (ORDER BY created_at says no more).
RECURSIVE OrderedBy(_, _)
OrderedBy(st, S) ==
    IF S = {} THEN {<< >>}
    ELSE LET least == {i \in S : \A j \in S : st[i].created_at <= st[j].created_at}
         IN UNION {{<<i>> \o t : t \in OrderedBy(st, S \ {i})} : i \in least}

\* crud.get_messages: the result lists query may return, as store positions.
\* Filtered by session_id only; user_id is a parameter it never reads.
get_messages(st, session_id, user_id) ==
    OrderedBy(st, {i \in DOMAIN st : st[i].session_id = session_id})

\* main.py line 191: rows mapped to role/content pairs.
History(st, rows) ==
    [k \in DOMAIN rows |->
        [role |-> st[rows[k]].role, content |-> st[rows[k]].content]]

\* ----------------------------------------------------- factory and adapters

KnownProviders == {"openai", "gemini", "anthropic", "ollama"}

\* Mutation of get_provider: no raise, an unknown name falls through to the
\* last branch.
get_provider_fallthrough(provider_name) ==
    IF provider_name = "openai" THEN [ok |-> TRUE, cls |-> "OpenAIProvider", err |-> << >>]
    ELSE IF provider_name = "gemini" THEN [ok |-> TRUE, cls |-> "GeminiProvider", err |-> << >>]
    ELSE IF provider_name = "anthropic" THEN [ok |-> TRUE, cls |-> "AnthropicProvider", err |-> << >>]
    ELSE [ok |-> TRUE, cls |-> "OllamaProvider", err |-> << >>]

\* AIProviderFactory.get_provider: the adapter class instantiated, or the
\* ValueError raised.
get_provider(provider_name) ==
    IF provider_name = "openai" THEN [ok |-> TRUE, cls |-> "OpenAIProvider", err |-> << >>]
    ELSE IF provider_name = "gemini" THEN [ok |-> TRUE, cls |-> "GeminiProvider", err |-> << >>]
    ELSE IF provider_name = "anthropic" THEN [ok |-> TRUE, cls |-> "AnthropicProvider", err |-> << >>]
    ELSE IF provider_name = "ollama" THEN [ok |-> TRUE, cls |-> "OllamaProvider", err |-> << >>]
    ELSE [ok |-> FALSE, cls |-> "none", err |-> <<"Unsupported provider: ", provider_name>>]

\* Positional parameters (after self) each stream_chat override declares:
\* OpenAIProvider (prompt, model, history), the other three (prompt, model).
StreamChatParams(cls) ==
    IF cls = "OpenAIProvider" THEN 3 ELSE 2

\* Arguments stream_and_save passes: payload.prompt, payload.model, history.
OrchestratorArgs == 3

\* Python binds the arguments when stream_chat is called: more positional
\* arguments than parameters is a TypeError raised by the call itself.
CallAccepted(cls, nargs) == nargs <= StreamChatParams(cls)

SignatureError(cls) ==
    <<cls, ".stream_chat() takes 3 positional arguments but 4 were given">>

\* OpenAIProvider.stream_chat line 51: the messages sent upstream.
OpenAIMessages(hist, prompt) ==
    hist \o <<[role |-> "user", content |-> prompt]>>

\* Incremental payloads of the OpenAI backend: a chunk without choices, a
\* chunk whose delta carries no text, chunks carrying text.
OpenAIChunks ==
    {[choices |-> FALSE, content |-> << >>],
     [choices |-> TRUE, content |-> << >>],
     [choices |-> TRUE, content |-> <<"a">>],
     [choices |-> TRUE, content |-> <<"b">>]}

\* OpenAIProvider.stream_chat lines 54-58: the fragments one chunk yields.
OpenAIYield(chunk) ==
    IF chunk.choices /\ chunk.content # << >> THEN <<chunk.content>> ELSE << >>

\* ------------------------------------------------------------------- Init

Init ==
    /\ store = << >>
    /\ payload = [r \in Reqs |-> NoPayload]
    /\ pc = [r \in Reqs |-> "idle"]
    /\ connected = [r \in Reqs |-> TRUE]
    /\ full_response = [r \in Reqs |-> << >>]
    /\ history_db = [r \in Reqs |-> << >>]
    /\ adapter = [r \in Reqs |-> "none"]
    /\ calls = [r \in Reqs |-> 0]
    /\ pulled = [r \in Reqs |-> 0]
    /\ events = [r \in Reqs |-> << >>]
    /\ written = [r \in Reqs |-> << >>]
    /\ detected = [r \in Reqs |-> FALSE]
    /\ yielded = [r \in Reqs |-> << >>]
    /\ raised_by = [r \in Reqs |-> "none"]
    /\ log = [r \in Reqs |-> << >>]
    /\ upstream = [r \in Reqs |-> << >>]
    /\ clock = 0
    /\ txn_at = [r \in Reqs |-> 0]
    /\ served = 0

\* ---------------------------------------------------------------- actions

\* POST /chat/stream, chat_stream: the session lookup, the first statement of
\* the request's database transaction (started at time now); 404 when the
\* caller owns no such session, otherwise the streaming response is opened on
\* a new generator (full_response = "", nothing yielded yet).
ChatStream(r, user, session_id, prompt, provider, now) ==
    /\ pc[r] \in {"idle"} \cup Terminal
    /\ served < MaxReqs
    /\ served' = served + 1
    /\ payload' = [payload EXCEPT ![r] =
            [user |-> user, session |-> session_id, prompt |-> prompt,
             provider |-> provider]]
    /\ pc' = [pc EXCEPT ![r] =
            IF get_session(session_id, user) THEN "open" ELSE "notfound"]
    /\ clock' = now
    /\ txn_at' = [txn_at EXCEPT ![r] = now]
    /\ connected' = [connected EXCEPT ![r] = TRUE]
    /\ full_response' = [full_response EXCEPT ![r] = << >>]
    /\ history_db' = [history_db EXCEPT ![r] = << >>]
    /\ adapter' = [adapter EXCEPT ![r] = "none"]
    /\ calls' = [calls EXCEPT ![r] = 0]
    /\ pulled' = [pulled EXCEPT ![r] = 0]
    /\ events' = [events EXCEPT ![r] = << >>]
    /\ written' = [written EXCEPT ![r] = << >>]
    /\ detected' = [detected EXCEPT ![r] = FALSE]
    /\ yielded' = [yielded EXCEPT ![r] = << >>]
    /\ raised_by' = [raised_by EXCEPT ![r] = "none"]
    /\ log' = [log EXCEPT ![r] = << >>]
    /\ UNCHANGED <<store, upstream>>

\* The client goes away while the response is open.
Disconnect(r) ==
    /\ pc[r] \in {"open", "user_saved"} \cup Suspended
    /\ connected[r]
    /\ connected' = [connected EXCEPT ![r] = FALSE]
    /\ UNCHANGED <<store, payload, pc, full_response, history_db, adapter,
                   calls, pulled, events, written, detected, yielded, raised_by,
                   log, upstream, clock, txn_at, served>>

\* Mutation of SaveUser: the user message is added and committed twice.
SaveUserTwice(r, commit_ok) ==
    /\ pc[r] = "open"
    /\ IF commit_ok
       THEN /\ store' = create_message(
                            create_message(store, "user", payload[r].session,
                                           payload[r].prompt, payload[r].user,
                                           txn_at[r]),
                            "user", payload[r].session, payload[r].prompt,
                            payload[r].user, txn_at[r])
            /\ written' = [written EXCEPT ![r] = Append(@, Len(store) + 1)]
            /\ pc' = [pc EXCEPT ![r] = "user_saved"]
            /\ UNCHANGED raised_by
       ELSE /\ pc' = [pc EXCEPT ![r] = "raised"]
            /\ raised_by' = [raised_by EXCEPT ![r] = "store"]
            /\ UNCHANGED <<store, written>>
    /\ log' = [log EXCEPT ![r] = Append(@, "save_user")]
    /\ UNCHANGED <<payload, connected, full_response, history_db, adapter,
                   calls, pulled, events, detected, yielded, upstream, clock,
                   txn_at, served>>

\* stream_and_save line 185: the user message is written, outside the try,
\* in the transaction the session lookup started; the commit ends it. A
\* failing commit raises out of the generator: no event is yielded.
SaveUser(r, commit_ok) ==
    /\ pc[r] = "open"
    /\ IF commit_ok
       THEN /\ store' = create_message(store, "user", payload[r].session,
                                       payload[r].prompt, payload[r].user,
                                       txn_at[r])
            /\ written' = [written EXCEPT ![r] = Append(@, Len(store) + 1)]
            /\ pc' = [pc EXCEPT ![r] = "user_saved"]
            /\ UNCHANGED raised_by
       ELSE /\ pc' = [pc EXCEPT ![r] = "raised"]
            /\ raised_by' = [raised_by EXCEPT ![r] = "store"]
            /\ UNCHANGED <<store, written>>
    /\ log' = [log EXCEPT ![r] = Append(@, "save_user")]
    /\ UNCHANGED <<payload, connected, full_response, history_db, adapter,
                   calls, pulled, events, detected, yielded, upstream, clock,
                   txn_at, served>>

\* stream_and_save lines 190-194 up to the first await: the history load
\* (the query starts the session's next transaction, at time now), the
\* adapter resolution and the stream_chat call. Every exception is caught by
\* the except clause, which yields one error event.
StartStream(r, load_ok, rows, text, now) ==
    /\ pc[r] = "user_saved"
    /\ rows \in get_messages(store, payload[r].session, payload[r].user)
    /\ clock' = now
    /\ txn_at' = [txn_at EXCEPT ![r] = now]
    /\ LET got == get_provider(payload[r].provider)
           fail(t, step, ops) ==
               /\ events' = [events EXCEPT ![r] = Append(@, ErrorEvent(t))]
               /\ raised_by' = [raised_by EXCEPT ![r] = step]
               /\ log' = [log EXCEPT ![r] = @ \o ops \o <<"error">>]
               /\ pc' = [pc EXCEPT ![r] = "failed"]
       IN IF ~load_ok
          THEN /\ fail(text, "store", <<"load_history">>)
               /\ UNCHANGED <<history_db, adapter, calls>>
          ELSE /\ history_db' = [history_db EXCEPT ![r] = rows]
               /\ IF ~got.ok
                  THEN /\ fail(got.err, "get_provider", <<"load_history", "get_provider">>)
                       /\ UNCHANGED <<adapter, calls>>
                  ELSE /\ adapter' = [adapter EXCEPT ![r] = got.cls]
                       /\ IF ~CallAccepted(got.cls, OrchestratorArgs)
                          THEN /\ fail(SignatureError(got.cls), "stream_chat",
                                       <<"load_history", "get_provider", "stream_chat">>)
                               /\ UNCHANGED calls
                          ELSE /\ calls' = [calls EXCEPT ![r] = @ + 1]
                               /\ log' = [log EXCEPT ![r] =
                                      @ \o <<"load_history", "get_provider", "stream_chat">>]
                               /\ pc' = [pc EXCEPT ![r] = "streaming"]
                               /\ UNCHANGED <<events, raised_by>>
    /\ UNCHANGED <<store, payload, connected, full_response, pulled, written,
                   detected, yielded, upstream, served>>

\* Mutation of Finish: the "if full_response" guard is dropped, the
\* assistant message is written whatever the accumulator holds.
FinishUnguarded(r, commit_ok, text, outcome) ==
    IF ~commit_ok
    THEN /\ events' = [events EXCEPT ![r] = Append(@, ErrorEvent(text))]
         /\ pc' = [pc EXCEPT ![r] = "failed"]
         /\ raised_by' = [raised_by EXCEPT ![r] = "store"]
         /\ log' = [log EXCEPT ![r] = @ \o <<"save_assistant", "error">>]
         /\ UNCHANGED <<store, written>>
    ELSE /\ store' = create_message(store, "assistant", payload[r].session,
                                    full_response[r], payload[r].user, txn_at[r])
         /\ written' = [written EXCEPT ![r] = Append(@, Len(store) + 1)]
         /\ events' = [events EXCEPT ![r] = Append(@, DoneEvent)]
         /\ log' = [log EXCEPT ![r] = @ \o <<"save_assistant", "done">>]
         /\ pc' = [pc EXCEPT ![r] = outcome]
         /\ UNCHANGED raised_by

\* Mutation of Finish: "[DONE]" is yielded first and the assistant message is
\* written after it.
FinishDoneFirst(r, commit_ok, text, outcome) ==
    IF full_response[r] # << >> /\ ~commit_ok
    THEN /\ events' = [events EXCEPT ![r] = @ \o <<DoneEvent, ErrorEvent(text)>>]
         /\ pc' = [pc EXCEPT ![r] = "failed"]
         /\ raised_by' = [raised_by EXCEPT ![r] = "store"]
         /\ log' = [log EXCEPT ![r] = @ \o <<"done", "save_assistant", "error">>]
         /\ UNCHANGED <<store, written>>
    ELSE /\ IF full_response[r] # << >>
            THEN /\ store' = create_message(store, "assistant", payload[r].session,
                                            full_response[r], payload[r].user,
                                            txn_at[r])
                 /\ written' = [written EXCEPT ![r] = Append(@, Len(store) + 1)]
                 /\ log' = [log EXCEPT ![r] = @ \o <<"done", "save_assistant">>]
            ELSE /\ log' = [log EXCEPT ![r] = Append(@, "done")]
                 /\ UNCHANGED <<store, written>>
         /\ events' = [events EXCEPT ![r] = Append(@, DoneEvent)]
         /\ pc' = [pc EXCEPT ![r] = outcome]
         /\ UNCHANGED raised_by

\* stream_and_save lines 200-203, reached when the loop ends or breaks: the
\* accumulated text is written if non-empty, in the transaction the history
\* load started, then [DONE] is yielded. A failing commit is caught by the
\* except clause.
Finish(r, commit_ok, text, outcome) ==
    IF full_response[r] # << >> /\ ~commit_ok
    THEN /\ events' = [events EXCEPT ![r] = Append(@, ErrorEvent(text))]
         /\ pc' = [pc EXCEPT ![r] = "failed"]
         /\ raised_by' = [raised_by EXCEPT ![r] = "store"]
         /\ log' = [log EXCEPT ![r] = @ \o <<"save_assistant", "error">>]
         /\ UNCHANGED <<store, written>>
    ELSE /\ IF full_response[r] # << >>
            THEN /\ store' = create_message(store, "assistant", payload[r].session,
                                            full_response[r], payload[r].user,
                                            txn_at[r])
                 /\ written' = [written EXCEPT ![r] = Append(@, Len(store) + 1)]
                 /\ log' = [log EXCEPT ![r] = @ \o <<"save_assistant", "done">>]
            ELSE /\ log' = [log EXCEPT ![r] = Append(@, "done")]
                 /\ UNCHANGED <<store, written>>
         /\ events' = [events EXCEPT ![r] = Append(@, DoneEvent)]
         /\ pc' = [pc EXCEPT ![r] = outcome]
         /\ UNCHANGED raised_by

\* The backend delivers a chunk for which the adapter yields nothing: the
\* loop body of stream_and_save does not run.
AdapterSkip(r, chunk) ==
    /\ pc[r] = "streaming"
    /\ adapter[r] = "OpenAIProvider"
    /\ pulled[r] < MaxChunks
    /\ OpenAIYield(chunk) = << >>
    /\ pulled' = [pulled EXCEPT ![r] = @ + 1]
    /\ UNCHANGED <<store, payload, pc, connected, full_response, history_db,
                   adapter, calls, events, written, detected, yielded, raised_by,
                   log, upstream, clock, txn_at, served>>

\* Line 194: the adapter hands the loop its next token; the loop body starts
\* by awaiting request.is_disconnected() (line 195) with the token in hand.
NextToken(r, chunk) ==
    /\ pc[r] = "streaming"
    /\ adapter[r] = "OpenAIProvider"
    /\ pulled[r] < MaxChunks
    /\ OpenAIYield(chunk) # << >>
    /\ yielded' = [yielded EXCEPT ![r] = Append(@, OpenAIYield(chunk)[1])]
    /\ pulled' = [pulled EXCEPT ![r] = @ + 1]
    /\ log' = [log EXCEPT ![r] = Append(@, "token")]
    /\ pc' = [pc EXCEPT ![r] = "checking"]
    /\ UNCHANGED <<store, payload, connected, full_response, history_db, adapter,
                   calls, events, written, detected, raised_by, upstream, clock,
                   txn_at, served>>

\* The token the loop body is working on.
TokenInHand(r) == yielded[r][Len(yielded[r])]

\* Lines 195-196, client connected: the token is yielded as a delta event;
\* the generator stays suspended at the yield until it is resumed.
Relay(r) ==
    /\ pc[r] = "checking"
    /\ connected[r]
    /\ events' = [events EXCEPT ![r] = Append(@, DeltaEvent(TokenInHand(r)))]
    /\ pc' = [pc EXCEPT ![r] = "yielding"]
    /\ UNCHANGED <<store, payload, connected, full_response, history_db, adapter,
                   calls, pulled, written, detected, yielded, raised_by, log,
                   upstream, clock, txn_at, served>>

\* Mutation of Accumulate: the token is put in front of the accumulator.
AccumulatePrepends(r) ==
    /\ pc[r] = "yielding"
    /\ full_response' = [full_response EXCEPT ![r] = TokenInHand(r) \o @]
    /\ pc' = [pc EXCEPT ![r] = "streaming"]
    /\ UNCHANGED <<store, payload, connected, history_db, adapter, calls, pulled,
                   events, written, detected, yielded, raised_by, log, upstream,
                   clock, txn_at, served>>

\* Mutation of Accumulate: one accumulator shared by the requests in flight.
AccumulateShared(r) ==
    /\ pc[r] = "yielding"
    /\ full_response' = [q \in Reqs |->
           IF pc[q] \in Suspended THEN full_response[q] \o TokenInHand(r)
           ELSE full_response[q]]
    /\ pc' = [pc EXCEPT ![r] = "streaming"]
    /\ UNCHANGED <<store, payload, connected, history_db, adapter, calls, pulled,
                   events, written, detected, yielded, raised_by, log, upstream,
                   clock, txn_at, served>>

\* Lines 197-198: the generator is resumed, the token is appended to
\* full_response, and the loop sleeps, then awaits the adapter's next token.
Accumulate(r) ==
    /\ pc[r] = "yielding"
    /\ full_response' = [full_response EXCEPT ![r] = @ \o TokenInHand(r)]
    /\ pc' = [pc EXCEPT ![r] = "streaming"]
    /\ UNCHANGED <<store, payload, connected, history_db, adapter, calls, pulled,
                   events, written, detected, yielded, raised_by, log, upstream,
                   clock, txn_at, served>>

\* Mutation of BreakOnDisconnect: the token in hand is accumulated before
\* the liveness check, so it is persisted with the rest.
BreakKeepsToken(r, commit_ok, text) ==
    /\ pc[r] = "checking"
    /\ ~connected[r]
    /\ detected' = [detected EXCEPT ![r] = TRUE]
    /\ full_response' = [full_response EXCEPT ![r] = @ \o TokenInHand(r)]
    /\ IF commit_ok
       THEN /\ store' = create_message(store, "assistant", payload[r].session,
                                       full_response'[r], payload[r].user,
                                       txn_at[r])
            /\ written' = [written EXCEPT ![r] = Append(@, Len(store) + 1)]
            /\ events' = [events EXCEPT ![r] = Append(@, DoneEvent)]
            /\ log' = [log EXCEPT ![r] = @ \o <<"save_assistant", "done">>]
            /\ pc' = [pc EXCEPT ![r] = "disconnected"]
            /\ UNCHANGED raised_by
       ELSE /\ events' = [events EXCEPT ![r] = Append(@, ErrorEvent(text))]
            /\ log' = [log EXCEPT ![r] = @ \o <<"save_assistant", "error">>]
            /\ pc' = [pc EXCEPT ![r] = "failed"]
            /\ raised_by' = [raised_by EXCEPT ![r] = "store"]
            /\ UNCHANGED <<store, written>>
    /\ UNCHANGED <<payload, connected, history_db, adapter, calls, pulled,
                   yielded, upstream, clock, txn_at, served>>

\* Line 195, client gone: break; the token in hand is dropped, then lines
\* 200-203 run.
BreakOnDisconnect(r, commit_ok, text) ==
    /\ pc[r] = "checking"
    /\ ~connected[r]
    /\ detected' = [detected EXCEPT ![r] = TRUE]
    /\ Finish(r, commit_ok, text, "disconnected")
    /\ UNCHANGED <<payload, connected, full_response, history_db, adapter, calls,
                   pulled, yielded, upstream, clock, txn_at, served>>

\* The adapter's sequence ends normally: lines 200-203 run.
StreamEnd(r, commit_ok, text) ==
    /\ pc[r] = "streaming"
    /\ Finish(r, commit_ok, text, "completed")
    /\ UNCHANGED <<payload, connected, full_response, history_db, adapter, calls,
                   pulled, detected, yielded, upstream, clock, txn_at, served>>

\* Mutation of StreamRaise: [DONE] is yielded on the failure path too, after
\* the error event.
StreamRaiseThenDone(r, text) ==
    /\ pc[r] = "streaming"
    /\ events' = [events EXCEPT ![r] = @ \o <<ErrorEvent(text), DoneEvent>>]
    /\ log' = [log EXCEPT ![r] = @ \o <<"error", "done">>]
    /\ pc' = [pc EXCEPT ![r] = "failed"]
    /\ raised_by' = [raised_by EXCEPT ![r] = "adapter"]
    /\ UNCHANGED <<store, payload, connected, full_response, history_db, adapter,
                   calls, pulled, written, detected, yielded, upstream, clock,
                   txn_at, served>>

\* The adapter raises while the loop awaits the next token: the except
\* clause, lines 204-209, yields one error event carrying str(e).
StreamRaise(r, text) ==
    /\ pc[r] = "streaming"
    /\ events' = [events EXCEPT ![r] = Append(@, ErrorEvent(text))]
    /\ log' = [log EXCEPT ![r] = Append(@, "error")]
    /\ pc' = [pc EXCEPT ![r] = "failed"]
    /\ raised_by' = [raised_by EXCEPT ![r] = "adapter"]
    /\ UNCHANGED <<store, payload, connected, full_response, history_db, adapter,
                   calls, pulled, written, detected, yielded, upstream, clock,
                   txn_at, served>>

\* The consumer closes the generator while it is suspended at the yield of
\* line 196, or its task is cancelled at an await (lines 194, 195, 198):
\* GeneratorExit and CancelledError are not caught by "except Exception", so
\* the generator ends there: nothing more is written or yielded.
Close(r) ==
    /\ pc[r] \in Suspended
    /\ pc' = [pc EXCEPT ![r] = "closed"]
    /\ UNCHANGED <<store, payload, connected, full_response, history_db, adapter,
                   calls, pulled, events, written, detected, yielded, raised_by,
                   log, upstream, clock, txn_at, served>>

ErrData == {<<t>> : t \in ErrTexts}

\* No request is in flight.
Quiet == \A q \in Reqs : pc[q] \in {"idle"} \cup Terminal

\* The client issues its requests one after the other, on one connection.
Next ==
    \/ \E u \in Users, s \in SessionIds, p \in Prompts, v \in Providers,
          t \in NowStamps(clock) : Quiet /\ ChatStream(1, u, s, p, v, t)
    \/ \E r \in Reqs : Disconnect(r)
    \/ \E r \in Reqs, ok \in BOOLEAN : SaveUser(r, ok)
    \/ \E r \in Reqs, ok \in BOOLEAN, e \in ErrData, t \in NowStamps(clock) :
          \E rows \in get_messages(store, payload[r].session, payload[r].user) :
             StartStream(r, ok, rows, e, t)
    \/ \E r \in Reqs, c \in OpenAIChunks : AdapterSkip(r, c)
    \/ \E r \in Reqs, c \in OpenAIChunks : NextToken(r, c)
    \/ \E r \in Reqs : Relay(r)
    \/ \E r \in Reqs : Accumulate(r)
    \/ \E r \in Reqs, ok \in BOOLEAN, e \in ErrData : BreakOnDisconnect(r, ok, e)
    \/ \E r \in Reqs, ok \in BOOLEAN, e \in ErrData : StreamEnd(r, ok, e)
    \/ \E r \in Reqs, e \in ErrData : StreamRaise(r, e)
    \/ \E r \in Reqs : Close(r)

Spec == Init /\ [][Next]_vars

\* The event loop keeps running a request's generator while it has a step to
\* take: a request is not left waiting forever.
SpecFair == Spec /\ WF_vars(Next)

\* ------------------------------------ two requests in flight on one session

\* Two validated requests of the owner against the same session, each on its
\* own connection, with different prompts; their steps interleave freely. The
\* Store accepts every commit and query here (its failures are sequential
\* matters, covered by Spec).
ConcPrompt(r) == IF r = 1 THEN <<"p">> ELSE <<"q">>

\* Each request's backend sends text of its own, so that the source of every
\* fragment can be told: chunks without text, and "a" for one, "b" for the
\* other.
ConcChunks(r) ==
    {c \in OpenAIChunks :
        c.choices /\ c.content \in {<< >>, IF r = 1 THEN <<"a">> ELSE <<"b">>}}

NextConc ==
    \/ \E r \in Reqs, t \in NowStamps(clock) :
          pc[r] = "idle" /\ ChatStream(r, "u1", "s1", ConcPrompt(r), "openai", t)
    \/ \E r \in Reqs : Disconnect(r)
    \/ \E r \in Reqs : SaveUser(r, TRUE)
    \/ \E r \in Reqs, t \in NowStamps(clock) :
          \E rows \in get_messages(store, payload[r].session, payload[r].user) :
             StartStream(r, TRUE, rows, <<"boom">>, t)
    \/ \E r \in Reqs : \E c \in ConcChunks(r) : AdapterSkip(r, c)
    \/ \E r \in Reqs : \E c \in ConcChunks(r) : NextToken(r, c)
    \/ \E r \in Reqs : Relay(r)
    \/ \E r \in Reqs : Accumulate(r)
    \/ \E r \in Reqs : BreakOnDisconnect(r, TRUE, <<"boom">>)
    \/ \E r \in Reqs : StreamEnd(r, TRUE, <<"boom">>)
    \/ \E r \in Reqs : StreamRaise(r, <<"boom">>)
    \/ \E r \in Reqs : Close(r)

SpecConc == Init /\ [][NextConc]_vars

\* ------------------------------------------------- vocabulary of the claims

IsDelta(e) == e.type = "delta"
IsTerminalEvent(e) == e.type \in {"done", "error"}

\* The delta events a request has yielded, and the text each carries.
Deltas(r) == SelectSeq(events[r], IsDelta)
Texts(evs) == [i \in DOMAIN evs |-> evs[i].data]
Forwarded(r) == Texts(Deltas(r))

\* The caller owns the session: a row of the sessions table with that owner.
Owns(user_id, session_id) ==
    \E sid \in DOMAIN SessionOwner : sid = session_id /\ SessionOwner[sid] = user_id

\* f1 + f2 + ... + fn.
RECURSIVE Concat(_)
Concat(frags) ==
    IF frags = << >> THEN << >> ELSE Head(frags) \o Concat(Tail(frags))

\* The row request r inserted k-th is a message of its session with this
\* role and content.
Wrote(r, k, role, content) ==
    /\ k \in DOMAIN written[r]
    /\ written[r][k] \in DOMAIN store
    /\ store[written[r][k]].session_id = payload[r].session
    /\ store[written[r][k]].role = role
    /\ store[written[r][k]].content = content

\* Request r has added exactly its user message and one assistant message
\* with this content.
WroteTurn(r, content) ==
    /\ Len(written[r]) = 2
    /\ Wrote(r, 1, "user", payload[r].prompt)
    /\ Wrote(r, 2, "assistant", content)

\* Request r has added exactly its user message.
WroteUserOnly(r) ==
    /\ Len(written[r]) = 1
    /\ Wrote(r, 1, "user", payload[r].prompt)

\* ------------------------------------------------- adapters driven directly

\* Lines of the backend's response read by one direct call, at most.
MaxLines == 3

AdapterClasses ==
    {"OpenAIProvider", "GeminiProvider", "AnthropicProvider", "OllamaProvider"}

\* A direct call stream_chat(prompt, model): two arguments.
DirectArgs == 2

\* Incremental payloads of the Gemini backend: a chunk without text, chunks
\* carrying text.
GeminiChunks == {[text |-> << >>], [text |-> <<"a">>], [text |-> <<"b">>]}

\* GeminiProvider.stream_chat lines 69-71.
GeminiYield(chunk) == IF chunk.text # << >> THEN <<chunk.text>> ELSE << >>

\* Items of the Anthropic client's text_stream: a text delta, possibly empty.
AnthropicTexts == {<< >>, <<"a">>, <<"b">>}

\* AnthropicProvider.stream_chat lines 84-85: every item is yielded as it is.
AnthropicYield(text) == <<text>>

\* Lines of the Ollama backend's response body: an empty line, a line that is
\* not JSON, and JSON objects with or without the keys 'response' and 'done'.
OllamaLines ==
    {[bytes |-> "empty", has_response |-> FALSE, response |-> << >>, done |-> FALSE],
     [bytes |-> "malformed", has_response |-> FALSE, response |-> << >>, done |-> FALSE],
     [bytes |-> "json", has_response |-> FALSE, response |-> << >>, done |-> FALSE],
     [bytes |-> "json", has_response |-> TRUE, response |-> << >>, done |-> FALSE],
     [bytes |-> "json", has_response |-> TRUE, response |-> << >>, done |-> TRUE],
     [bytes |-> "json", has_response |-> TRUE, response |-> <<"a">>, done |-> FALSE],
     [bytes |-> "json", has_response |-> TRUE, response |-> <<"b">>, done |-> FALSE]}

\* OllamaProvider.stream_chat lines 101-107: an empty line is passed over; a
\* line json.loads rejects is reported with print and passed over; a decoded
\* object yields its 'response' when it has the key and 'done' is not set.
OllamaYield(line) ==
    IF line.bytes = "empty" THEN << >>
    ELSE IF line.bytes = "malformed" THEN << >>
    ELSE IF line.has_response /\ ~line.done THEN <<line.response>>
    ELSE << >>

Payloads(cls) ==
    CASE cls = "OpenAIProvider"    -> OpenAIChunks
      [] cls = "GeminiProvider"    -> GeminiChunks
      [] cls = "AnthropicProvider" -> AnthropicTexts
      [] cls = "OllamaProvider"    -> OllamaLines
      [] OTHER                     -> {}

AdapterYield(cls, item) ==
    CASE cls = "OpenAIProvider"    -> OpenAIYield(item)
      [] cls = "GeminiProvider"    -> GeminiYield(item)
      [] cls = "AnthropicProvider" -> AnthropicYield(item)
      [] cls = "OllamaProvider"    -> OllamaYield(item)

\* stream_chat(prompt, model) is called on an adapter instance.
DirectCall(r, cls) ==
    /\ pc[r] = "idle"
    /\ CallAccepted(cls, DirectArgs)
    /\ adapter' = [adapter EXCEPT ![r] = cls]
    /\ calls' = [calls EXCEPT ![r] = @ + 1]
    /\ pc' = [pc EXCEPT ![r] = "streaming"]
    /\ UNCHANGED <<store, payload, connected, full_response, history_db, pulled,
                   events, written, detected, yielded, raised_by, log, upstream,
                   clock, txn_at, served>>

\* The adapter's loop reads one more payload and yields what its filter lets
\* through.
AdapterRead(r, item) ==
    /\ pc[r] = "streaming"
    /\ Len(upstream[r]) < MaxLines
    /\ upstream' = [upstream EXCEPT ![r] = Append(@, item)]
    /\ yielded' = [yielded EXCEPT ![r] = @ \o AdapterYield(adapter[r], item)]
    /\ pulled' = [pulled EXCEPT ![r] = @ + 1]
    /\ UNCHANGED <<store, payload, pc, connected, full_response, history_db,
                   adapter, calls, events, written, detected, raised_by, log,
                   clock, txn_at, served>>

\* The backend's stream ends: the adapter's loop ends and the generator returns.
AdapterReturn(r) ==
    /\ pc[r] = "streaming"
    /\ pc' = [pc EXCEPT ![r] = "returned"]
    /\ UNCHANGED <<store, payload, connected, full_response, history_db, adapter,
                   calls, pulled, events, written, detected, yielded, raised_by,
                   log, upstream, clock, txn_at, served>>

\* The client library raises while the stream is read: no adapter catches it.
AdapterFault(r) ==
    /\ pc[r] = "streaming"
    /\ pc' = [pc EXCEPT ![r] = "adapter_raised"]
    /\ raised_by' = [raised_by EXCEPT ![r] = "adapter"]
    /\ UNCHANGED <<store, payload, connected, full_response, history_db, adapter,
                   calls, pulled, events, written, detected, yielded, log,
                   upstream, clock, txn_at, served>>

NextAdapters ==
    \/ \E cls \in AdapterClasses : DirectCall(1, cls)
    \/ \E r \in Reqs : \E item \in Payloads(adapter[r]) : AdapterRead(r, item)
    \/ \E r \in Reqs : AdapterReturn(r)
    \/ \E r \in Reqs : AdapterFault(r)

SpecAdapters == Init /\ [][NextAdapters]_vars

\* --------------------------------------------- Store operations called directly

\* Rows of the messages table, at most, when the Store is driven directly.
MaxRows == 2

Roles == {"user", "assistant"}

\* crud.create_message(db, role, session_id, content, user_id) is called with
\* arguments of the caller's choice, in a transaction of its own.
CallCreateMessage(r, user, session_id, role, content, stamp) ==
    /\ pc[r] = "idle"
    /\ Len(store) < MaxRows
    /\ store' = create_message(store, role, session_id, content, user, stamp)
    /\ payload' = [payload EXCEPT ![r] = [user |-> user, session |-> session_id,
                                          prompt |-> content, provider |-> "none"]]
    /\ written' = [written EXCEPT ![r] =
           IF Len(store') > Len(store) THEN <<Len(store')>> ELSE << >>]
    /\ history_db' = [history_db EXCEPT ![r] = << >>]
    /\ clock' = stamp
    /\ UNCHANGED <<pc, connected, full_response, adapter, calls, pulled, events,
                   detected, yielded, raised_by, log, upstream, txn_at, served>>

\* crud.get_messages(db, session_id, user_id) is called with arguments of the
\* caller's choice; rows is the list it returns.
CallGetMessages(r, user, session_id, rows) ==
    /\ pc[r] = "idle"
    /\ rows \in get_messages(store, session_id, user)
    /\ history_db' = [history_db EXCEPT ![r] = rows]
    /\ payload' = [payload EXCEPT ![r] = [user |-> user, session |-> session_id,
                                          prompt |-> << >>, provider |-> "none"]]
    /\ written' = [written EXCEPT ![r] = << >>]
    /\ UNCHANGED <<store, pc, connected, full_response, adapter, calls, pulled,
                   events, detected, yielded, raised_by, log, upstream, clock, txn_at, served>>

NextStore ==
    \/ \E u \in Users, s \in DOMAIN SessionOwner, role \in Roles, c \in Prompts,
          t \in NowStamps(clock) : CallCreateMessage(1, u, s, role, c, t)
    \/ \E u \in Users, s \in DOMAIN SessionOwner :
          \E rows \in get_messages(store, s, u) : CallGetMessages(1, u, s, rows)

SpecStore == Init /\ [][NextStore]_vars

\* ------------------------------------------------------------------ claims

\* C1: a request that completes (the adapter's sequence f1..fn, n >= 1, ended
\* normally, the client stayed connected, the Store accepted the writes) has
\* yielded exactly delta f1 .. delta fn then one [DONE], and has added exactly
\* one user message (the prompt) and one assistant message f1+...+fn; and no
\* event is ever yielded before the user message is in the Store.
C1_CompletedStream ==
    \A r \in Reqs :
        /\ events[r] # << >> => Wrote(r, 1, "user", payload[r].prompt)
        /\ (pc[r] = "completed" /\ connected[r] /\ yielded[r] # << >>) =>
              /\ events[r] = [i \in DOMAIN yielded[r] |-> DeltaEvent(yielded[r][i])]
                                \o <<DoneEvent>>
              /\ WroteTurn(r, Concat(yielded[r]))

C1_Witness ==
    \E r \in Reqs :
        /\ pc[r] = "completed" /\ connected[r]
        /\ yielded[r] = << <<"a">>, <<"b">> >>

\* C2: when the loop detects the disconnect after k >= 1 fragments were
\* forwarded (or the client left after the last forwarded fragment and the
\* sequence ended), the request has added exactly one assistant message, whose
\* content is the concatenation of the k forwarded fragments; the fragment in
\* hand at detection is neither forwarded nor part of that content.
C2_DisconnectKeepsForwarded ==
    \A r \in Reqs :
        (pc[r] \in {"disconnected", "completed"} /\ ~connected[r] /\ Forwarded(r) # << >>) =>
            /\ WroteTurn(r, Concat(Forwarded(r)))
            /\ detected[r] =>
                  /\ Forwarded(r) = SubSeq(yielded[r], 1, Len(yielded[r]) - 1)
                  /\ Len(yielded[r]) = Len(Forwarded(r)) + 1

C2_Witness ==
    \E r \in Reqs :
        /\ pc[r] = "disconnected" /\ detected[r]
        /\ Forwarded(r) = << <<"a">> >>
        /\ yielded[r] = << <<"a">>, <<"b">> >>

\* C3 (as claimed): when the adapter raises after k >= 1 fragments were
\* forwarded, the accumulated text is persisted as one assistant message and
\* the client gets the k deltas followed by exactly one error event.
C3_FailurePersistsPartial ==
    \A r \in Reqs :
        (pc[r] = "failed" /\ raised_by[r] = "adapter" /\ Forwarded(r) # << >>) =>
            /\ WroteTurn(r, Concat(Forwarded(r)))
            /\ Len(events[r]) = Len(Forwarded(r)) + 1
            /\ events[r][Len(events[r])].type = "error"

\* C4 (as claimed): the history handed to the adapter holds exactly the
\* session's messages persisted before this turn and never the row of the
\* request's own prompt, so the messages sent upstream are those plus the
\* prompt, once.
C4_HistoryExcludesPrompt ==
    \A r \in Reqs :
        pc[r] = "streaming" =>
            LET before == {i \in DOMAIN store :
                              /\ i < written[r][1]
                              /\ store[i].session_id = payload[r].session}
                sent == OpenAIMessages(History(store, history_db[r]), payload[r].prompt)
            IN /\ \A k \in DOMAIN history_db[r] : history_db[r][k] # written[r][1]
               /\ Len(sent) = Cardinality(before) + 1

\* C5: a request naming a session the caller does not own (or that does not
\* exist) ends with 404 and nothing else: it wrote no message, resolved and
\* called no adapter, and yielded no event.
C5_NotFoundLeavesNoTrace ==
    \A r \in Reqs :
        (pc[r] # "idle" /\ ~Owns(payload[r].user, payload[r].session)) =>
            /\ pc[r] = "notfound"
            /\ written[r] = << >>
            /\ events[r] = << >>
            /\ adapter[r] = "none" /\ calls[r] = 0 /\ pulled[r] = 0

C5_Witness ==
    \E r \in Reqs :
        /\ pc[r] = "notfound"
        /\ payload[r].session = "s1" /\ payload[r].user = "u2"
        /\ store # << >>

\* C6: a validated request with an unknown provider identifier never gets an
\* adapter and never streams; it ends FAILED with exactly one event, an error
\* event, having added only its user message; the only exception that leaves
\* the generator is the user-message write's, never the factory's.
C6_UnknownProvider ==
    \A r \in Reqs :
        (pc[r] \notin {"idle", "notfound"} /\ payload[r].provider \notin KnownProviders) =>
            /\ adapter[r] = "none" /\ calls[r] = 0 /\ yielded[r] = << >>
            /\ pc[r] \in {"open", "user_saved", "failed", "raised"}
            /\ pc[r] = "raised" => raised_by[r] = "store" /\ written[r] = << >>
            /\ pc[r] = "failed" =>
                  /\ Len(events[r]) = 1 /\ events[r][1].type = "error"
                  /\ WroteUserOnly(r)

C6_Witness ==
    \E r \in Reqs :
        /\ payload[r].provider = "bogus"
        /\ pc[r] = "failed" /\ raised_by[r] = "get_provider"
        /\ events[r] = <<ErrorEvent(<<"Unsupported provider: ", "bogus">>)>>

\* C7: no assistant message in the Store has empty content; a request whose
\* adapter sequence ended normally without any fragment has added exactly
\* its user message and has yielded exactly [DONE].
C7_NoEmptyAssistant ==
    /\ \A i \in DOMAIN store : store[i].role = "assistant" => store[i].content # << >>
    /\ \A r \in Reqs :
          (pc[r] = "completed" /\ yielded[r] = << >>) =>
              /\ WroteUserOnly(r)
              /\ events[r] = <<DoneEvent>>

C7_Witness ==
    \E r \in Reqs :
        /\ pc[r] = "completed" /\ yielded[r] = << >> /\ pulled[r] > 0

\* C8: only the last event of a stream can be [DONE] or an error event: at
\* most one terminal event, never both, nothing after it.
C8_OneTerminalEventLast ==
    \A r \in Reqs :
        \A i \in DOMAIN events[r] :
            IsTerminalEvent(events[r][i]) => i = Len(events[r])

\* The assistant-message write failed after deltas were sent.
C8_Witness ==
    \E r \in Reqs :
        /\ pc[r] = "failed" /\ raised_by[r] = "store"
        /\ Len(Forwarded(r)) = 2
        /\ events[r][Len(events[r])].type = "error"

\* C9 (as claimed): once the loop has detected the disconnect, the request
\* yields no further event: everything it has yielded is a delta.
C9_SilentAfterDisconnect ==
    \A r \in Reqs :
        detected[r] => \A i \in DOMAIN events[r] : IsDelta(events[r][i])

\* C10 (as claimed): for every known provider the adapter the factory
\* returns accepts the orchestrator's call (prompt, model, history).
C10_UniformInterface ==
    \A r \in Reqs :
        (payload[r].provider \in KnownProviders /\ adapter[r] # "none") =>
            /\ calls[r] = 1
            /\ raised_by[r] # "stream_chat"

\* ---- C11 ----------------------------------------------------------------
\* The place of each operation in the order stream_and_save performs them.
Rank(op) ==
    CASE op = "save_user"      -> 1
      [] op = "load_history"   -> 2
      [] op = "get_provider"   -> 3
      [] op = "stream_chat"    -> 4
      [] op = "token"          -> 5
      [] op = "save_assistant" -> 6
      [] OTHER                 -> 7

IsPrefix(a, b) == Len(a) <= Len(b) /\ SubSeq(b, 1, Len(a)) = a

Tokens(ops) == SelectSeq(ops, LAMBDA op : op = "token")

\* C11: within one request the operations occur in one fixed order: the
\* user-message write, then the history load, then adapter resolution, then the
\* adapter call, then the fragments (relayed in the order the adapter produced
\* them), then the assistant-message write if any, then the terminal event; no
\* operation happens without the ones before it.
C11_FixedOrder ==
    \A r \in Reqs :
       /\ \A i, j \in DOMAIN log[r] :
             i < j => \/ Rank(log[r][i]) < Rank(log[r][j])
                      \/ log[r][i] = "token" /\ log[r][j] = "token"
       /\ \A j \in DOMAIN log[r] :
             /\ Rank(log[r][j]) \in 2..5 =>
                   \E i \in 1..(j - 1) : Rank(log[r][i]) = Rank(log[r][j]) - 1
             /\ log[r][j] = "save_assistant" =>
                   /\ \E i \in 1..(j - 1) : log[r][i] = "token"
                   /\ j + 1 \in DOMAIN log[r]
       /\ Len(Tokens(log[r])) = Len(yielded[r])
       /\ IsPrefix(Forwarded(r), yielded[r])

C11_Witness ==
    \E r \in Reqs :
       /\ pc[r] = "completed"
       /\ Forwarded(r) = << <<"a">>, <<"b">> >>
       /\ yielded[r] = << <<"a">>, <<"b">> >>
       /\ log[r] = <<"save_user", "load_history", "get_provider", "stream_chat",
                     "token", "token", "save_assistant", "done">>

\* ---- C12 ----------------------------------------------------------------
\* The rows of the Store with a given role.
RowsWithRole(st, role) == {k \in DOMAIN st : st[k].role = role}

\* C12: a validated request that has reached COMPLETED, DISCONNECTED or FAILED
\* has added exactly one user message carrying its prompt and at most one
\* assistant message, whatever the terminal state; while it is the only request
\* served, these are the only rows of the Store.
C12_OneUserAtMostOneAssistant ==
    \A r \in Reqs :
       pc[r] \in {"completed", "disconnected", "failed"} =>
          /\ Len(written[r]) \in {1, 2}
          /\ Wrote(r, 1, "user", payload[r].prompt)
          /\ Len(written[r]) = 2 =>
                /\ written[r][2] \in DOMAIN store
                /\ written[r][2] # written[r][1]
                /\ store[written[r][2]].role = "assistant"
                /\ store[written[r][2]].session_id = payload[r].session
          /\ served = 1 =>
                /\ Cardinality(RowsWithRole(store, "user")) = 1
                /\ Cardinality(RowsWithRole(store, "assistant")) = Len(written[r]) - 1
                /\ Len(store) = Len(written[r])

\* The provider call failed before any fragment: the user message alone is kept.
C12_Witness ==
    \E r \in Reqs :
       /\ pc[r] = "failed"
       /\ raised_by[r] \in {"get_provider", "stream_chat", "adapter"}
       /\ yielded[r] = << >>
       /\ served = 1
       /\ store = <<Message(payload[r].session, "user", payload[r].prompt, 1)>>

\* ---- C13 ----------------------------------------------------------------
\* C13: no adapter ever yields an empty fragment, whatever the payloads its
\* backend sends, and no delta event carries empty text.
C13_NoEmptyFragment ==
    \A r \in Reqs :
       /\ \A i \in DOMAIN yielded[r] : yielded[r][i] # << >>
       /\ \A i \in DOMAIN events[r] :
             IsDelta(events[r][i]) => events[r][i].data # << >>

\* ---- C14 ----------------------------------------------------------------
\* A Store write of request r (the user message or the assistant message)
\* failed.
WriteFailed(r) ==
    /\ raised_by[r] = "store"
    /\ \/ log[r] = <<"save_user">>
       \/ \E i \in DOMAIN log[r] : log[r][i] = "save_assistant"

\* C14: a Store write failure is reported as an error event and is never raised
\* out of the generator: the request ends FAILED, its last event is the error
\* event, no [DONE] is yielded, and no assistant message is persisted.
C14_WriteFailureReported ==
    \A r \in Reqs :
       WriteFailed(r) =>
          /\ pc[r] = "failed"
          /\ events[r] # << >>
          /\ events[r][Len(events[r])].type = "error"
          /\ \A i \in DOMAIN events[r] : events[r][i].type # "done"
          /\ Len(written[r]) <= 1

\* ---- C15 ----------------------------------------------------------------
\* The step appends an error event with this text to the events of request r.
ErrorEventAfter(r, x) == events'[r] = Append(events[r], ErrorEvent(x))

\* C15: the error event does not depend on the text of the exception: whenever
\* the adapter can raise with one text and the client then gets an error event
\* x, the adapter raising with any other text gets the client the same x.
C15_ErrorIndependentOfExceptionText ==
    \A r \in Reqs : \A e1, e2, x \in ErrData :
       ENABLED (StreamRaise(r, e1) /\ ErrorEventAfter(r, x))
          => ENABLED (StreamRaise(r, e2) /\ ErrorEventAfter(r, x))

\* ---- C16 ----------------------------------------------------------------
\* C16: create_message appends nothing and get_messages returns nothing when
\* the user given to it does not own the session.
C16_StoreScopedToOwner ==
    \A r \in Reqs :
       (payload[r] # NoPayload /\ ~Owns(payload[r].user, payload[r].session)) =>
          /\ written[r] = << >>
          /\ history_db[r] = << >>

\* ---- C17 ----------------------------------------------------------------
\* C17: the history load returns the session's messages in insertion order,
\* each once, also when messages carry the same creation timestamp.
C17_HistoryInInsertionOrder ==
    \A r \in Reqs :
       /\ \A i, j \in DOMAIN history_db[r] :
             i < j => history_db[r][i] < history_db[r][j]
       /\ \A k \in DOMAIN history_db[r] :
             /\ history_db[r][k] \in DOMAIN store
             /\ store[history_db[r][k]].session_id = payload[r].session

\* ---- C18 ----------------------------------------------------------------
Finished == {"completed", "disconnected", "failed"}

\* How far a request has come.
Progress(state) ==
    CASE state = "idle"       -> 0
      [] state = "open"       -> 1
      [] state = "user_saved" -> 2
      [] state \in Suspended  -> 3
      [] OTHER                -> 4

\* One step of a request that is not the arrival of a new one: it never goes
\* back, never calls the adapter a second time, requests no fragment once the
\* disconnect is detected, and does nothing once it is finished.
OneWayStep ==
    \A r \in Reqs :
       served' = served =>
          /\ Progress(pc'[r]) >= Progress(pc[r])
          /\ calls'[r] <= 1
          /\ detected[r] => pulled'[r] = pulled[r]
          /\ pc[r] \in Finished =>
                /\ pc'[r] = pc[r]
                /\ events'[r] = events[r]
                /\ written'[r] = written[r]
                /\ calls'[r] = calls[r]
                /\ pulled'[r] = pulled[r]
                /\ store' = store \/ \E q \in Reqs \ {r} : written'[q] # written[q]

\* C18: the request state machine is one-directional, the adapter is invoked
\* at most once, nothing is requested after the disconnect is detected,
\* finished requests write and emit nothing more, and every validated request
\* eventually reaches COMPLETED, DISCONNECTED or FAILED.
C18_OneWayAndTerminates ==
    /\ [][OneWayStep]_vars
    /\ \A r \in Reqs : \A k \in 1..MaxReqs :
          (pc[r] = "open" /\ served = k) ~> (pc[r] \in Finished /\ served = k)

\* ---- C19 ----------------------------------------------------------------
\* The text carried by the well-formed lines among those read, in order.
RECURSIVE WellFormedTexts(_)
WellFormedTexts(lines) ==
    IF lines = << >> THEN << >>
    ELSE (IF Head(lines).bytes = "json" /\ Head(lines).has_response
             /\ ~Head(lines).done
          THEN <<Head(lines).response>> ELSE << >>)
         \o WellFormedTexts(Tail(lines))

AllMalformed(lines) ==
    /\ lines # << >>
    /\ \A i \in DOMAIN lines : lines[i].bytes = "malformed"

\* C19: the Ollama adapter skips a malformed line and still yields the
\* well-formed lines before and after it, in order; and when every line of
\* the stream was malformed it does not return normally but raises.
C19_MalformedLines ==
    \A r \in Reqs :
       adapter[r] = "OllamaProvider" =>
          /\ yielded[r] = WellFormedTexts(upstream[r])
          /\ AllMalformed(upstream[r]) => pc[r] # "returned"

\* ---- C20 ----------------------------------------------------------------
\* The store positions request r inserted.
Inserted(r) == {written[r][k] : k \in DOMAIN written[r]}

\* The relayed fragments the loop has come to append: all of them, but for
\* the latest while the generator is still suspended at its yield.
Accumulated(r) ==
    IF pc[r] = "yielding"
    THEN SubSeq(Forwarded(r), 1, Len(Forwarded(r)) - 1)
    ELSE Forwarded(r)

\* C20: with two requests in flight on one session, each accumulator holds the
\* fragments relayed by its own request only; a finished request has added
\* exactly one user message and at most one assistant message, the latter
\* being the concatenation of its own relayed fragments in order; the rows of
\* the two requests are distinct and are all the rows of the Store.
C20_PrivateAccumulators ==
    /\ \A r \in Reqs :
          /\ pc[r] \in Suspended \cup Finished =>
                full_response[r] = Concat(Accumulated(r))
          /\ IsPrefix(Forwarded(r), yielded[r])
          /\ pc[r] \in Finished =>
                /\ Len(written[r]) \in {1, 2}
                /\ Wrote(r, 1, "user", payload[r].prompt)
                /\ Len(written[r]) = 2 =>
                      Wrote(r, 2, "assistant", Concat(Forwarded(r)))
    /\ \A r, q \in Reqs : r # q => Inserted(r) \cap Inserted(q) = {}
    /\ Cardinality(UNION {Inserted(r) : r \in Reqs}) = Len(store)

\* Both requests were streaming at once and both completed, with different
\* answers, their rows interleaved in the Store.
C20_Witness ==
    /\ pc[1] = "completed" /\ pc[2] = "completed"
    /\ written[1] = <<1, 4>>
    /\ written[2] = <<2, 3>>
    /\ store[4].content = <<"a", "a">>
    /\ store[3].content = <<"b", "b">>
====
